---- MODULE Spec2Model ----
(***************************************************************************)
(* Model of the two Airflow jobs of colav/Chia:                            *)
(*   - airflow/dags/impactu_airflow_pr_validator.py : validate_pr and the  *)
(*     helpers it calls, over an abstract file system (/tmp/airflow_pr_N   *)
(*     workspaces and the SQLite file /tmp/airflow_validation.db);         *)
(*   - airflow/dags/auto_deploy_impactu.py : the commit-polling DAG        *)
(*     check_updates >> update_package >> save_deployed_commit.            *)
(* External collaborators (GitHub, uv/pip, the Airflow toolchain, the      *)
(* operating system) answer nondeterministically: every call either        *)
(* succeeds with some result or raises.                                    *)
(***************************************************************************)
EXTENDS Integers, Sequences, FiniteSets, TLC

VARIABLES
    run,        \* validate_pr: the local state of each invocation
    fs,         \* the workspaces /tmp/airflow_pr_<n>, one per PR number
    db,         \* /tmp/airflow_validation.db: the runs that migrated it
    variable,   \* Airflow Variable impactu_last_deployed_commit
    remote,     \* SHA at the tip of main on the remote
    dag         \* the current auto_deploy_impactu DAG run

vars == <<run, fs, db, variable, remote, dag>>
valVars == <<run, fs, db>>
deployVars == <<variable, remote, dag>>

(***************************************************************************)
(* Bounds                                                                  *)
(***************************************************************************)
\* validate_pr invocations per behaviour
MaxRuns == 2

Runs == 1..MaxRuns

\* the pull request numbers that get validated (conf["pr_number"])
PRs == {1, 2}

(***************************************************************************)
(* File names.  A name is <<directory prefix, stem, extension>> so that    *)
(* str.startswith and str.endswith are computed on it.                     *)
(***************************************************************************)
DagA == <<"dags/", "a", ".py">>
Reqs == <<"", "requirements", ".txt">>
PathSeq == <<DagA, Reqs>>
Paths == {PathSeq[i] : i \in 1..Len(PathSeq)}

StartsWith(f, prefix) == f[1] = prefix
EndsWith(f, suffix) == f[3] = suffix

\* A file in a workspace: its content ("base": from the branch archive,
\* "pr": from the pull request) and the run that wrote it.
Absent == [c |-> "absent", by |-> 0]
File(c, r) == [c |-> c, by |-> r]

NoReportFile == [by |-> 0]
NoDir == [exists |-> FALSE, files |-> [p \in Paths |-> Absent],
          ignore |-> 0, venv |-> 0, report |-> NoReportFile]
EmptyDir == [NoDir EXCEPT !.exists = TRUE]

(***************************************************************************)
(* validate_pr: local state                                                *)
(***************************************************************************)
None == "none"
NoChecks == <<>>

IdleRun == [pc |-> "idle", pr_number |-> 0,
            validation_report |-> [pr_number |-> 0, status |-> None,
                                   message |-> None, error |-> None,
                                   checks |-> NoChecks],
            pr_files |-> <<>>, changed_dags |-> <<>>, archive |-> {},
            i |-> 0, python_exe |-> None, cleaned |-> FALSE,
            caught |-> None, raised |-> None,
            calls |-> <<>>, db_found |-> {}]

\* one directory for every pull request
base_dir_Fixed(r) == 1

\* line 360
base_dir(r) == run[r].pr_number

Ended(r) == run[r].pc \in {"returned", "raised"}

\* line 361-366
NewReport(n) == [pr_number |-> n, status |-> "running", message |-> None,
                 error |-> None, checks |-> NoChecks]

Set(r, rec) == run' = [run EXCEPT ![r] = rec]

\* an exception raised inside the try block reaches the handler of line 489
Raise(r, rec, e) == Set(r, [rec EXCEPT !.pc = "except", !.caught = e])

Called(rec, f) == [rec EXCEPT !.calls = Append(@, f)]

(***************************************************************************)
(* validate_pr line 349-366                                                *)
(***************************************************************************)
Begin(r, n) ==
    /\ run[r].pc = "idle"
    /\ IF n = 0
       THEN Set(r, [run[r] EXCEPT !.pc = "raised", !.raised = "ValueError"])
       ELSE Set(r, [run[r] EXCEPT !.pc = "rmtree", !.pr_number = n,
                                  !.validation_report = NewReport(n)])
    /\ UNCHANGED <<fs, db>>

\* the directory is left as it is
Removed_Nothing(dir) == dir

\* line 377: shutil.rmtree(base_dir)
Removed(dir) == NoDir

\* line 375-377: shutil.rmtree raises on an OS error and leaves the directory
RmTree(r) ==
    /\ run[r].pc = "rmtree"
    /\ IF fs[base_dir(r)].exists
       THEN \/ /\ fs' = [fs EXCEPT ![base_dir(r)] = Removed(@)]
               /\ Set(r, [run[r] EXCEPT !.pc = "makedirs", !.cleaned = TRUE])
            \/ /\ Raise(r, [run[r] EXCEPT !.cleaned = TRUE], "rmtree")
               /\ UNCHANGED fs
       ELSE /\ Set(r, [run[r] EXCEPT !.pc = "makedirs"])
            /\ UNCHANGED fs
    /\ UNCHANGED db

\* line 378: os.makedirs raises FileExistsError on an existing directory
MakeDirs(r) ==
    /\ run[r].pc = "makedirs"
    /\ \/ /\ ~fs[base_dir(r)].exists
          /\ fs' = [fs EXCEPT ![base_dir(r)] = EmptyDir]
          /\ Set(r, [run[r] EXCEPT !.pc = "fetch_pr_info"])
       \/ /\ Raise(r, run[r], "makedirs")
          /\ UNCHANGED fs
    /\ UNCHANGED db

(***************************************************************************)
(* The changed-file list of a pull request (GET .../pulls/{n}/files): one  *)
(* entry per file name, in file-name order; raw_url serves the PR content. *)
(***************************************************************************)
Statuses == {"added", "modified", "removed"}

RECURSIVE ListFrom(_, _)
ListFrom(s, k) ==
    IF k > Len(PathSeq) THEN <<>>
    ELSE (IF s[PathSeq[k]] = None THEN <<>>
          ELSE <<[filename |-> PathSeq[k], status |-> s[PathSeq[k]]]>>)
         \o ListFrom(s, k + 1)

ChangedFileLists == {ListFrom(s, 1) : s \in [Paths -> Statuses \cup {None}]}

\* line 383
FetchPrInfo(r) ==
    /\ run[r].pc = "fetch_pr_info"
    /\ \/ Set(r, [run[r] EXCEPT !.pc = "fetch_pr_files"])
       \/ Raise(r, run[r], "fetch_pr_info")
    /\ UNCHANGED <<fs, db>>

\* line 384, the answer being one of `lists`
FetchPrFilesFrom(r, lists) ==
    /\ run[r].pc = "fetch_pr_files"
    /\ \/ \E files \in lists :
             Set(r, [run[r] EXCEPT !.pc = "changed_dags", !.pr_files = files])
       \/ Raise(r, run[r], "fetch_pr_files")
    /\ UNCHANGED <<fs, db>>

\* line 384
FetchPrFiles(r) == FetchPrFilesFrom(r, ChangedFileLists)

\* line 394
IsDagFile(f) == StartsWith(f, "dags/") /\ EndsWith(f, ".py")

\* line 392-395
RECURSIVE ChangedDags(_)
ChangedDags(files) ==
    IF files = <<>> THEN <<>>
    ELSE (IF IsDagFile(Head(files).filename) THEN <<Head(files).filename>> ELSE <<>>)
         \o ChangedDags(Tail(files))

\* the early return of line 397 left out
NothingToValidate_Never(dags) == FALSE

\* line 397
NothingToValidate(dags) == dags = <<>>

\* line 392-401: the skipped report is returned, not written
IdentifyChangedDags(r) ==
    /\ run[r].pc = "changed_dags"
    /\ LET dags == ChangedDags(run[r].pr_files) IN
       IF NothingToValidate(dags)
       THEN Set(r, [run[r] EXCEPT !.pc = "returned", !.changed_dags = dags,
                        !.validation_report.status = "skipped",
                        !.validation_report.message = "No DAG files modified"])
       ELSE Set(r, [run[r] EXCEPT !.pc = "download_branch_archive",
                                  !.changed_dags = dags])
    /\ UNCHANGED <<fs, db>>

\* line 91: shutil.copytree(source_dir, base_dir, dirs_exist_ok=True)
CopyTree(tree, dir, r) ==
    [dir EXCEPT !.exists = TRUE,
                !.files = [p \in Paths |-> IF p \in tree THEN File("base", r) ELSE @[p]]]

\* line 408, 70-94: the archive holds one of `trees`
DownloadBranchArchiveFrom(r, trees) ==
    /\ run[r].pc = "download_branch_archive"
    /\ \/ \E tree \in trees :
            /\ fs' = [fs EXCEPT ![base_dir(r)] = CopyTree(tree, @, r)]
            /\ Set(r, [Called(run[r], "download_branch_archive") EXCEPT
                          !.pc = "overlay", !.archive = tree, !.i = 1])
       \/ /\ Raise(r, Called(run[r], "download_branch_archive"), "download_branch_archive")
          /\ UNCHANGED fs
    /\ UNCHANGED db

\* line 408, 70-94: the archive holds some tree of the base branch
DownloadBranchArchive(r) == DownloadBranchArchiveFrom(r, SUBSET Paths)

\* the status test of line 413 left out
Overlaid_Always(pr_file) == TRUE

\* line 413
Overlaid(pr_file) == pr_file.status # "removed"

\* line 102-106: makedirs(dirname, exist_ok=True), then the file is written
WriteFile(dir, f, r) == [dir EXCEPT !.exists = TRUE, !.files[f] = File("pr", r)]

\* line 412-419: one iteration of the overlay loop
DownloadPrFile(r) ==
    /\ run[r].pc = "overlay"
    /\ run[r].i <= Len(run[r].pr_files)
    /\ LET pr_file == run[r].pr_files[run[r].i] IN
       IF Overlaid(pr_file)
       THEN \/ /\ fs' = [fs EXCEPT ![base_dir(r)] = WriteFile(@, pr_file.filename, r)]
               /\ Set(r, [run[r] EXCEPT !.i = @ + 1])
            \/ /\ Raise(r, run[r], "download_pr_file")
               /\ UNCHANGED fs
       ELSE /\ Set(r, [run[r] EXCEPT !.i = @ + 1])
            /\ UNCHANGED fs
    /\ UNCHANGED db

\* line 412: the loop ends
OverlayDone(r) ==
    /\ run[r].pc = "overlay"
    /\ run[r].i > Len(run[r].pr_files)
    /\ Set(r, [run[r] EXCEPT !.pc = "airflowignore"])
    /\ UNCHANGED <<fs, db>>

\* line 422-423: open(..., "w") needs the directory
WriteAirflowIgnore(r) ==
    /\ run[r].pc = "airflowignore"
    /\ IF fs[base_dir(r)].exists
       THEN /\ fs' = [fs EXCEPT ![base_dir(r)].ignore = r]
            /\ Set(r, [run[r] EXCEPT !.pc = "setup_virtual_environment"])
       ELSE /\ Raise(r, run[r], "FileNotFoundError")
            /\ UNCHANGED fs
    /\ UNCHANGED db

\* line 119
HasRequirements(dir) == dir.exists /\ dir.files[Reqs] # Absent

\* line 427, 111-147: uv venv, then the two uv pip install calls
SetupVirtualEnvironment(r) ==
    /\ run[r].pc = "setup_virtual_environment"
    /\ LET rec == Called(run[r], "setup_virtual_environment") IN
       IF ~HasRequirements(fs[base_dir(r)])
       THEN /\ Set(r, [rec EXCEPT !.pc = "initialize_test_database",
                                  !.python_exe = "sys.executable"])
            /\ UNCHANGED fs
       ELSE \/ /\ Raise(r, rec, "uv venv")
               /\ UNCHANGED fs
            \/ /\ fs' = [fs EXCEPT ![base_dir(r)] = [@ EXCEPT !.exists = TRUE, !.venv = r]]
               /\ \/ Raise(r, rec, "uv pip install")
                  \/ Set(r, [rec EXCEPT !.pc = "initialize_test_database",
                                        !.python_exe = "venv/bin/python"])
    /\ UNCHANGED db

\* line 432: AIRFLOW__DATABASE__SQL_ALCHEMY_CONN = sqlite:////tmp/airflow_validation.db
\* line 438, 150-165: airflow db migrate on that file
InitializeTestDatabase(r) ==
    /\ run[r].pc = "initialize_test_database"
    /\ LET rec == [Called(run[r], "initialize_test_database") EXCEPT !.db_found = db] IN
       \/ /\ db' = db \cup {r}
          /\ Set(r, [rec EXCEPT !.pc = "validate_syntax"])
       \/ /\ Raise(r, rec, "Failed to initialize Airflow database")
          /\ UNCHANGED db
    /\ UNCHANGED fs

(***************************************************************************)
(* Check stages.  The toolchain decides which files fail; a file that is   *)
(* not in the workspace cannot compile and holds no DAG.                   *)
(***************************************************************************)
Missing(dir, dag_files) ==
    {dag_files[k] : k \in {j \in 1..Len(dag_files) : dir.files[dag_files[j]] = Absent}}

FileSet(dag_files) == {dag_files[k] : k \in 1..Len(dag_files)}

\* line 179-201, 263-338: results = {"passed": [...], "failed": [...]}
Results(dag_files, bad) ==
    [passed |-> SelectSeq(dag_files, LAMBDA f : f \notin bad),
     failed |-> SelectSeq(dag_files, LAMBDA f : f \in bad)]

Outcomes(dir, dag_files) ==
    {Results(dag_files, bad \cup Missing(dir, dag_files)) : bad \in SUBSET FileSet(dag_files)}

WithCheck(rec, name, result) ==
    [rec EXCEPT !.validation_report.checks = (name :> result) @@ @]

Failed(rec, message) ==
    [rec EXCEPT !.validation_report.status = "failed",
                !.validation_report.message = message]

\* line 446
SyntaxFailed(syntax_results) == syntax_results.failed # <<>>

\* line 443-449
ValidateSyntax(r) ==
    /\ run[r].pc = "validate_syntax"
    /\ \E syntax_results \in Outcomes(fs[base_dir(r)], run[r].changed_dags) :
         LET rec == WithCheck(Called(run[r], "validate_syntax"), "syntax", syntax_results) IN
         IF SyntaxFailed(syntax_results)
         THEN Raise(r, Failed(rec, "Syntax validation failed"), "Syntax errors")
         ELSE Set(r, [rec EXCEPT !.pc = "validate_imports"])
    /\ UNCHANGED <<fs, db>>

\* the check of line 455 left out
ImportsFailed_Never(import_results) == FALSE

\* line 455
ImportsFailed(import_results) == ~import_results.success

\* line 452-458
ValidateImports(r) ==
    /\ run[r].pc = "validate_imports"
    /\ \E import_results \in {[success |-> TRUE], [success |-> FALSE]} :
         LET rec == WithCheck(Called(run[r], "validate_imports"), "imports", import_results) IN
         IF ImportsFailed(import_results)
         THEN Raise(r, Failed(rec, "Import validation failed"), "DAG import errors detected")
         ELSE Set(r, [rec EXCEPT !.pc = "validate_dag_structure"])
    /\ UNCHANGED <<fs, db>>

\* the check of line 464 left out
StructureFailed_Never(structure_results) == FALSE

\* line 464
StructureFailed(structure_results) == structure_results.failed # <<>>

\* line 461-467
ValidateDagStructure(r) ==
    /\ run[r].pc = "validate_dag_structure"
    /\ \E structure_results \in Outcomes(fs[base_dir(r)], run[r].changed_dags) :
         LET rec == WithCheck(Called(run[r], "validate_dag_structure"),
                              "structure", structure_results) IN
         IF StructureFailed(structure_results)
         THEN Raise(r, Failed(rec, "Structure validation failed"), "Structure errors")
         ELSE Set(r, [rec EXCEPT !.pc = "success"])
    /\ UNCHANGED <<fs, db>>

\* line 482-484, 500-502: json.dump into base_dir/validation_report.json
SaveReport(dir, report, r) == [dir EXCEPT !.report = [by |-> r, content |-> report]]

\* line 470-487
Succeed(r) ==
    /\ run[r].pc = "success"
    /\ LET rec == [run[r] EXCEPT !.validation_report.status = "success",
                                 !.validation_report.message = "All validations passed"] IN
       IF fs[base_dir(r)].exists
       THEN /\ fs' = [fs EXCEPT ![base_dir(r)] = SaveReport(@, rec.validation_report, r)]
            /\ Set(r, [rec EXCEPT !.pc = "returned"])
       ELSE /\ Raise(r, rec, "FileNotFoundError")
            /\ UNCHANGED fs
    /\ UNCHANGED db

\* line 489-504: an exception raised by open() replaces the one being handled
HandleException(r) ==
    /\ run[r].pc = "except"
    /\ LET rec == [run[r] EXCEPT !.validation_report.status = "error",
                                 !.validation_report.error = run[r].caught] IN
       IF fs[base_dir(r)].exists
       THEN /\ fs' = [fs EXCEPT ![base_dir(r)] = SaveReport(@, rec.validation_report, r)]
            /\ Set(r, [rec EXCEPT !.pc = "raised", !.raised = run[r].caught])
       ELSE /\ Set(r, [rec EXCEPT !.pc = "raised", !.raised = "FileNotFoundError"])
            /\ UNCHANGED fs
    /\ UNCHANGED db

\* the task instance is over: its locals are gone, the files stay
Finish(r) ==
    /\ Ended(r)
    /\ Set(r, [IdleRun EXCEPT !.pc = "done"])
    /\ UNCHANGED <<fs, db>>

(***************************************************************************)
(* auto_deploy_impactu: check_updates >> update_package >> save_commit     *)
(***************************************************************************)
SHAs == {"sha1", "sha2"}

\* line 129-130: PythonSensor(mode="poke", poke_interval=60, timeout=600)
poke_interval == 60
timeout == 600
\* line 111: default_args["retries"]
retries == 1

IdleDag == [pc |-> "idle", elapsed |-> 0, try_number |-> 0, new_commit |-> None,
            last_seen |-> None, returncode |-> -1, variable_at_start |-> None]

\* a commit lands on main
Push ==
    /\ \E sha \in SHAs \ {remote} : remote' = sha
    /\ UNCHANGED <<variable, dag>>

\* the schedule "*/10 * * * *" starts a DAG run
Schedule ==
    /\ dag.pc = "idle"
    /\ dag' = [IdleDag EXCEPT !.pc = "check_updates", !.variable_at_start = variable]
    /\ UNCHANGED <<variable, remote>>

\* the comparison of line 39 left out
NewCommitDetected_Always(last_deployed_commit, latest_commit) == TRUE

\* line 39
NewCommitDetected(last_deployed_commit, latest_commit) ==
    last_deployed_commit # latest_commit

\* the sensor's poke loop: a False poke past the timeout fails the task
\* (AirflowSensorTimeout is not retried), otherwise the sensor sleeps
PokeAgain ==
    IF dag.elapsed > timeout
    THEN dag' = [dag EXCEPT !.pc = "failed"]
    ELSE dag' = [dag EXCEPT !.elapsed = @ + poke_interval]

\* line 17-50: one poke of check_for_updates
CheckForUpdates ==
    /\ dag.pc = "check_updates"
    /\ \/ \* line 48-50: the request raised
          PokeAgain
       \/ LET latest_commit == remote
              last_deployed_commit == variable IN
          IF NewCommitDetected(last_deployed_commit, latest_commit)
          THEN dag' = [dag EXCEPT !.pc = "update_package",
                                  !.new_commit = latest_commit,
                                  !.last_seen = last_deployed_commit]
          ELSE PokeAgain
    /\ UNCHANGED <<variable, remote>>

\* line 75
Installed(returncode) == returncode = 0

\* a failed try of update_package is retried `retries` times
UpdateFailed(returncode) ==
    IF dag.try_number < retries
    THEN dag' = [dag EXCEPT !.try_number = @ + 1, !.returncode = returncode]
    ELSE dag' = [dag EXCEPT !.pc = "failed", !.returncode = returncode]

\* line 53-87: pip install exits with a return code or exceeds its timeout
UpdatePackageLocally ==
    /\ dag.pc = "update_package"
    /\ \/ \E returncode \in {0, 1} :
            IF Installed(returncode)
            THEN dag' = [dag EXCEPT !.pc = "save_deployed_commit", !.try_number = 0,
                                    !.returncode = returncode]
            ELSE UpdateFailed(returncode)
       \/ \* line 84-85: subprocess.TimeoutExpired, no return code
          UpdateFailed(-1)
    /\ UNCHANGED <<variable, remote>>

\* line 90-101; Variable.set may raise, and the task is then retried
SaveDeployedCommit ==
    /\ dag.pc = "save_deployed_commit"
    /\ LET new_commit == dag.new_commit IN
       \/ /\ IF new_commit # None
             THEN variable' = new_commit
             ELSE UNCHANGED variable
          /\ dag' = [dag EXCEPT !.pc = "success"]
       \/ /\ new_commit # None
          /\ UNCHANGED variable
          /\ IF dag.try_number < retries
             THEN dag' = [dag EXCEPT !.try_number = @ + 1]
             ELSE dag' = [dag EXCEPT !.pc = "failed"]
    /\ UNCHANGED remote

\* the DAG run is over; its XComs belong to that run
EndDagRun ==
    /\ dag.pc \in {"success", "failed"}
    /\ dag' = IdleDag
    /\ UNCHANGED <<variable, remote>>

Sequential(r) == \A q \in Runs : (q < r) => run[q].pc = "done"

Init ==
    /\ run = [r \in Runs |-> IdleRun]
    /\ fs = [n \in PRs |-> NoDir]
    /\ db = {}
    /\ variable = None
    /\ remote = "sha1"
    /\ dag = IdleDag

Next ==
    \/ \E r \in Runs, n \in PRs \cup {0} : Sequential(r) /\ Begin(r, n) /\ UNCHANGED deployVars
    \/ \E r \in Runs : RmTree(r) /\ UNCHANGED deployVars
    \/ \E r \in Runs : MakeDirs(r) /\ UNCHANGED deployVars
    \/ \E r \in Runs : FetchPrInfo(r) /\ UNCHANGED deployVars
    \/ \E r \in Runs : FetchPrFiles(r) /\ UNCHANGED deployVars
    \/ \E r \in Runs : IdentifyChangedDags(r) /\ UNCHANGED deployVars
    \/ \E r \in Runs : DownloadBranchArchive(r) /\ UNCHANGED deployVars
    \/ \E r \in Runs : DownloadPrFile(r) /\ UNCHANGED deployVars
    \/ \E r \in Runs : OverlayDone(r) /\ UNCHANGED deployVars
    \/ \E r \in Runs : WriteAirflowIgnore(r) /\ UNCHANGED deployVars
    \/ \E r \in Runs : SetupVirtualEnvironment(r) /\ UNCHANGED deployVars
    \/ \E r \in Runs : InitializeTestDatabase(r) /\ UNCHANGED deployVars
    \/ \E r \in Runs : ValidateSyntax(r) /\ UNCHANGED deployVars
    \/ \E r \in Runs : ValidateImports(r) /\ UNCHANGED deployVars
    \/ \E r \in Runs : ValidateDagStructure(r) /\ UNCHANGED deployVars
    \/ \E r \in Runs : Succeed(r) /\ UNCHANGED deployVars
    \/ \E r \in Runs : HandleException(r) /\ UNCHANGED deployVars
    \/ \E r \in Runs : Finish(r) /\ UNCHANGED deployVars

Spec == Init /\ [][Next]_vars

DeployNext ==
    \/ Push /\ UNCHANGED valVars
    \/ Schedule /\ UNCHANGED valVars
    \/ CheckForUpdates /\ UNCHANGED valVars
    \/ UpdatePackageLocally /\ UNCHANGED valVars
    \/ SaveDeployedCommit /\ UNCHANGED valVars
    \/ EndDagRun /\ UNCHANGED valVars

DeploySpec == Init /\ [][DeployNext]_vars

\* the pull requests validated by overlapping runs: one changes the DAG
\* file, the other changes no DAG file; the base branch has both paths
OverlapFileLists ==
    {<<[filename |-> DagA, status |-> "modified"]>>,
     <<[filename |-> Reqs, status |-> "modified"]>>}
OverlapTrees == {Paths}

\* validate_pr holds no lock: the runs of the pr_validator DAG may overlap
\* (two at a time: a third run starts when at most one other is under way)
Active(q) == run[q].pc \notin {"idle", "done"}

Overlapping(r) ==
    /\ \A q \in Runs : (q < r) => run[q].pc # "idle"
    /\ \A q1, q2 \in Runs : (Active(q1) /\ Active(q2)) => q1 = q2

ConcurrentNext ==
    \/ \E r \in Runs, n \in PRs \cup {0} : Overlapping(r) /\ Begin(r, n) /\ UNCHANGED deployVars
    \/ \E r \in Runs : RmTree(r) /\ UNCHANGED deployVars
    \/ \E r \in Runs : MakeDirs(r) /\ UNCHANGED deployVars
    \/ \E r \in Runs : FetchPrInfo(r) /\ UNCHANGED deployVars
    \/ \E r \in Runs : FetchPrFilesFrom(r, OverlapFileLists) /\ UNCHANGED deployVars
    \/ \E r \in Runs : IdentifyChangedDags(r) /\ UNCHANGED deployVars
    \/ \E r \in Runs : DownloadBranchArchiveFrom(r, OverlapTrees) /\ UNCHANGED deployVars
    \/ \E r \in Runs : DownloadPrFile(r) /\ UNCHANGED deployVars
    \/ \E r \in Runs : OverlayDone(r) /\ UNCHANGED deployVars
    \/ \E r \in Runs : WriteAirflowIgnore(r) /\ UNCHANGED deployVars
    \/ \E r \in Runs : SetupVirtualEnvironment(r) /\ UNCHANGED deployVars
    \/ \E r \in Runs : InitializeTestDatabase(r) /\ UNCHANGED deployVars
    \/ \E r \in Runs : ValidateSyntax(r) /\ UNCHANGED deployVars
    \/ \E r \in Runs : ValidateImports(r) /\ UNCHANGED deployVars
    \/ \E r \in Runs : ValidateDagStructure(r) /\ UNCHANGED deployVars
    \/ \E r \in Runs : Succeed(r) /\ UNCHANGED deployVars
    \/ \E r \in Runs : HandleException(r) /\ UNCHANGED deployVars
    \/ \E r \in Runs : Finish(r) /\ UNCHANGED deployVars

ConcurrentSpec == Init /\ [][ConcurrentNext]_vars

(***************************************************************************)
(* Properties                                                              *)
(***************************************************************************)
Stages == <<"validate_syntax", "validate_imports", "validate_dag_structure">>

StageCalls(r) ==
    SelectSeq(run[r].calls, LAMBDA f : f \in {Stages[k] : k \in 1..Len(Stages)})

Checks(r) == run[r].validation_report.checks
Status(r) == run[r].validation_report.status
ReportFile(r) == fs[run[r].pr_number].report

\* C1: the stages run in the order syntax, imports, structure, each at most
\* once; imports runs only after syntax reported no failure, structure only
\* after imports reported success.
C1_StageOrder ==
    \A r \in Runs :
        LET st == StageCalls(r) IN
        /\ Len(st) <= Len(Stages)
        /\ st = SubSeq(Stages, 1, Len(st))
        /\ Len(st) >= 2 => Checks(r)["syntax"].failed = <<>>
        /\ Len(st) >= 3 => Checks(r)["imports"].success

C1_Witness ==
    \E r \in Runs :
        /\ run[r].pc = "raised"
        /\ StageCalls(r) = SubSeq(Stages, 1, 2)
        /\ ~Checks(r)["imports"].success

ReportedFailure(r) ==
    LET c == Checks(r) IN
    \/ "syntax" \in DOMAIN c /\ c["syntax"].failed # <<>>
    \/ "imports" \in DOMAIN c /\ ~c["imports"].success
    \/ "structure" \in DOMAIN c /\ c["structure"].failed # <<>>

\* C2: a run in which a stage reported a failure ends by raising, with the
\* report's status "failed" and the report file holding that status.
C2_FailedReportPersisted ==
    \A r \in Runs :
        (Ended(r) /\ ReportedFailure(r)) =>
            /\ run[r].pc = "raised"
            /\ Status(r) = "failed"
            /\ run[r].validation_report.message # None
            /\ ReportFile(r).by = r
            /\ ReportFile(r).content.status = "failed"

NoDagFile(files) ==
    \A k \in 1..Len(files) :
        ~(files[k].filename[1] = "dags/" /\ files[k].filename[3] = ".py")

AfterFilter ==
    {"returned", "download_branch_archive", "overlay", "airflowignore",
     "setup_virtual_environment", "initialize_test_database", "validate_syntax",
     "validate_imports", "validate_dag_structure", "success"}

\* C3: a run whose changed-file list holds no dags/*.py file returns with
\* status "skipped" and calls neither the archive download, the provisioner
\* nor a check stage; its workspace stays empty.
C3_SkippedWithoutProvisioning ==
    \A r \in Runs :
        NoDagFile(run[r].pr_files) =>
            /\ run[r].calls = <<>>
            /\ run[r].pc \in AfterFilter =>
                  /\ run[r].pc = "returned"
                  /\ Status(r) = "skipped"
                  /\ fs[run[r].pr_number] = EmptyDir

C3_Witness ==
    \E r \in Runs :
        /\ run[r].pc = "returned"
        /\ run[r].pr_files # <<>>
        /\ NoDagFile(run[r].pr_files)
        /\ Status(r) = "skipped"

\* C4: a run that ends after an exception reached the handler has status
\* "error" and the exception text in its report, the report is in the report
\* file, and the exception that leaves validate_pr is the one caught.
C4_ErrorReportPersisted ==
    \A r \in Runs :
        (run[r].pc = "raised" /\ run[r].caught # None) =>
            /\ Status(r) = "error"
            /\ run[r].validation_report.error = run[r].caught
            /\ ReportFile(r) = [by |-> r, content |-> run[r].validation_report]
            /\ run[r].raised = run[r].caught

AllPassed(r) ==
    /\ StageCalls(r) = Stages
    /\ Checks(r)["syntax"].failed = <<>>
    /\ Checks(r)["imports"].success
    /\ Checks(r)["structure"].failed = <<>>

C6_ReportFileAtEnd ==
    \A r \in Runs :
        (Ended(r) /\ run[r].pr_number # 0) =>
            /\ fs[run[r].pr_number].exists
            /\ ReportFile(r) = [by |-> r, content |-> run[r].validation_report]

StatusIn(files, f) ==
    IF \E k \in 1..Len(files) : files[k].filename = f
    THEN (CHOOSE e \in {files[k] : k \in 1..Len(files)} : e.filename = f).status
    ELSE None

\* C7: when the overlay loop has ended without an error, each path of the
\* workspace holds the PR content if the changed-file list names it with a
\* status other than "removed"; otherwise it holds the base content if the
\* archive has the path (also when the list says "removed"), and is absent
\* if the archive has not.
C7_OverlayOnBase ==
    \A r \in Runs :
        run[r].pc = "airflowignore" =>
            \A p \in Paths :
                LET st == StatusIn(run[r].pr_files, p)
                    c == fs[run[r].pr_number].files[p].c IN
                IF st \in {"added", "modified"} THEN c = "pr"
                ELSE IF p \in run[r].archive THEN c = "base"
                ELSE c = "absent"

C7_Witness ==
    \E r \in Runs :
        /\ run[r].pc = "airflowignore"
        /\ run[r].archive = Paths
        /\ StatusIn(run[r].pr_files, DagA) = "modified"
        /\ StatusIn(run[r].pr_files, Reqs) = "removed"
        /\ fs[run[r].pr_number].files[DagA].c = "pr"
        /\ fs[run[r].pr_number].files[Reqs].c = "base"

\* nothing in the workspace was written by a run other than r
OnlyFrom(dir, r) ==
    /\ \A p \in Paths : dir.files[p].by \in {0, r}
    /\ dir.ignore \in {0, r}
    /\ dir.venv \in {0, r}
    /\ dir.report.by \in {0, r}

C9_FreshDatabase ==
    \A r \in Runs :
        (\E k \in 1..Len(run[r].calls) : run[r].calls[k] = "initialize_test_database")
            => run[r].db_found = {}

\* C10: the persisted SHA changes only in save_deployed_commit, after a
\* check that saw a latest SHA different from the persisted one and after a
\* reinstall that exited with 0, and it becomes the SHA that check saw; a DAG
\* run that fails leaves the persisted SHA as it was, different from the SHA
\* its check saw.
C10_SavedOnlyAfterInstall ==
    /\ [][variable' # variable =>
            /\ dag.pc = "save_deployed_commit"
            /\ dag.new_commit # dag.last_seen
            /\ dag.returncode = 0
            /\ variable' = dag.new_commit
            /\ dag'.pc = "success"]_vars
    /\ [](dag.pc = "failed" =>
            /\ variable = dag.variable_at_start
            /\ dag.new_commit # None => variable # dag.new_commit)

C10_Witness ==
    /\ dag.pc = "success"
    /\ dag.variable_at_start # None
    /\ variable = dag.new_commit
    /\ variable # dag.variable_at_start
\* a run that has created its workspace and downloaded into it, and has
\* neither written its report nor failed
Downloading ==
    {"overlay", "airflowignore", "setup_virtual_environment",
     "initialize_test_database", "validate_syntax", "validate_imports",
     "validate_dag_structure", "success"}

\* C11: (witness) the start-of-run delete of one run removes the workspace
\* in which another run of the same PR number is working; (formula) a
\* workspace changes only in a step of a run of its own PR number, and it
\* ceases to exist only in the start-of-run delete of such a run.
C11_OnlyOwnWorkspace ==
    [][\A n \in PRs :
          /\ fs'[n] # fs[n] =>
                \E r \in Runs : run[r].pr_number = n /\ run'[r] # run[r]
          /\ (fs[n].exists /\ ~fs'[n].exists) =>
                \E r \in Runs : /\ run[r].pr_number = n
                                /\ run[r].pc = "rmtree"
                                /\ run'[r].pc = "makedirs"]_vars

C11_Witness ==
    \E r, q \in Runs :
        /\ r # q
        /\ run[r].pr_number = run[q].pr_number
        /\ run[r].pc = "makedirs"
        /\ run[r].cleaned
        /\ run[q].pc \in Downloading
        /\ ~fs[run[q].pr_number].exists
\* C12: every file handed to the syntax and structure stages is an entry of
\* the changed-file list whose status is not "removed", and the workspace
\* holds the pull request's content of it when the stages run.
C12_ChecksPrContent ==
    \A r \in Runs :
        (\E j \in 1..Len(run[r].calls) : run[r].calls[j] = "validate_syntax") =>
            \A k \in 1..Len(run[r].changed_dags) :
                LET f == run[r].changed_dags[k] IN
                /\ StatusIn(run[r].pr_files, f) \in Statuses
                /\ StatusIn(run[r].pr_files, f) # "removed"
                /\ fs[run[r].pr_number].files[f].c = "pr"
====
